---- MODULE Spec2Model ----
(***************************************************************************)
(* Model of the BSL Analyzer logo generators:                              *)
(*   create_hq_logo.py  - create_hq_bsl_logo, create_simplified_logo,      *)
(*                        create_optimized_icons and the script body       *)
(*   create_logo_png.py - create_bsl_logo                                  *)
(* An image is its dimensions plus the ordered list of draw calls made on  *)
(* its canvas (paint order is the only z-order), plus the resampling and   *)
(* sharpening passes applied to it.  A generator call is stepped one       *)
(* statement group (one loop iteration for the gradient loop) at a time.   *)
(***************************************************************************)
EXTENDS Integers, Sequences, FiniteSets, TLC

VARIABLES
    pc,         \* position in the script body of create_hq_logo.py
    idx,        \* number of entries of `sizes` already handled by the loop
    fontOK,     \* environment: ImageFont.truetype("arial.ttf", n) succeeds
    strict,     \* environment: the imaging library rejects x1 < x0 / y1 < y0
    call,       \* the generator call in progress (or finished)
    prev,       \* result of the previous call of the same generator and size
    attempts,   \* every logo.save(...) attempted so far, with its outcome
    disk        \* the image files present under vscode-extension/images

vars == <<pc, idx, fontOK, strict, call, prev, attempts, disk>>

----------------------------------------------------------------------------
(* Bounds of the model *)

\* generator sizes explored are 1..MaxSize plus the sizes the scripts use
MaxSize == 40
\* gradient-loop study: sizes 1..MaxRingSize
MaxRingSize == 532
\* pixels sampled per canvas axis when alpha is evaluated
GridN == 32

----------------------------------------------------------------------------
(* Program constants of create_hq_bsl_logo *)
scale == 4
gradient_steps == 50
bracket_width == 12
dot_radius == 12
line_width == 6
gear_outer == 16
gear_inner == 8
rect_size == 32
font_size == 40

\* sizes = {16: "small", 24: "medium", 32: "large", 48: "xlarge", 128: "icon"}
sizes == << [size |-> 16,  suffix |-> "small"],
            [size |-> 24,  suffix |-> "medium"],
            [size |-> 32,  suffix |-> "large"],
            [size |-> 48,  suffix |-> "xlarge"],
            [size |-> 128, suffix |-> "icon"] >>

\* create_logo_png.py: 128 for the main logo, then sizes = [32, 64, 256]
basic_sizes == {128, 32, 64, 256}

----------------------------------------------------------------------------
(* Draw calls *)

Max(a, b) == IF a >= b THEN a ELSE b

NoColor == <<>>

Op(kind, elem, xy, fill, outline, width, font) ==
    [kind |-> kind, elem |-> elem, xy |-> xy, fill |-> fill,
     outline |-> outline, width |-> width, font |-> font]

\* bounding box [x-radius, y-radius, x+radius, y+radius]
Box(c, r) == <<c[1] - r, c[2] - r, c[1] + r, c[2] + r>>

\* create_smooth_circle(draw, center, radius, color, width=0)
create_smooth_circle(elem, c, r, color, width) ==
    IF width = 0
    THEN Op("ellipse", elem, Box(c, r), color, NoColor, 0, "")
    ELSE Op("ellipse", elem, Box(c, r), NoColor, color, width, "")

\* create_smooth_line(draw, start, end, color, width=3)
create_smooth_line(elem, start, end, color, width) ==
    Op("line", elem, <<start[1], start[2], end[1], end[2]>>, color, NoColor, width, "")

\* the library's coordinate check for ellipse / rectangle / rounded_rectangle:
\* "x1 must be greater than or equal to x0" (likewise y)
ValidBox(op) ==
    op.kind \in {"ellipse", "rectangle", "rounded_rectangle"}
        => (op.xy[3] >= op.xy[1] /\ op.xy[4] >= op.xy[2])

\* index of the first draw call of ops that the strict library rejects, 0 if none
FirstInvalid(ops) ==
    LET bad == {k \in 1..Len(ops) : ~ValidBox(ops[k])}
    IN  IF bad = {} THEN 0 ELSE CHOOSE k \in bad : \A j \in bad : k <= j

NoRing == [i |-> -1, num |-> 0, den |-> 1, r |-> 0, g |-> 0, b |-> 0,
           alpha |-> 0, radius |-> 0, painted |-> FALSE]

\* Image.new('RGBA', (w, h), (0, 0, 0, 0))
NewImage(w, h) ==
    [mode |-> "RGBA", w |-> w, h |-> h, ops |-> <<>>, resampled |-> "", sharpened |-> FALSE]

\* a fresh call of generator gen with argument size, before its first statement
NewCall(gen, size) ==
    [gen |-> gen, size |-> size, stage |-> "new", i |-> 0,
     img |-> NewImage(0, 0), font |-> "",
     center |-> 0, radius |-> 0,
     left_points |-> <<>>, right_points |-> <<>>, points |-> <<>>,
     connections |-> <<>>, gear_center |-> <<>>, text_center |-> <<>>,
     ring |-> NoRing, prev_ring |-> NoRing]

NoCall == NewCall("none", 0)

\* Statements draw on the canvas in order; an invalid box raises ValueError in a
\* strict library (the draws before it stay painted, the call is abandoned).
Draw(c, ops, nextStage) ==
    LET bad == IF strict THEN FirstInvalid(ops) ELSE 0
    IN  IF bad = 0
        THEN [c EXCEPT !.img.ops = @ \o ops, !.stage = nextStage]
        ELSE [c EXCEPT !.img.ops = @ \o SubSeq(ops, 1, bad - 1), !.stage = "crashed"]

----------------------------------------------------------------------------
(* Geometry and palette of the generators *)

Generators == {"hq", "simplified", "basic"}

SizeOf(entry) == entry.size

GenSizes == (1..MaxSize) \cup {SizeOf(sizes[k]) : k \in 1..Len(sizes)} \cup basic_sizes

\* work_size = size * scale (the simplified and basic generators paint at size)
WorkSize(gen, size) == IF gen = "hq" THEN size * scale ELSE size

\* center = work_size // 2
Center(gen, size) == WorkSize(gen, size) \div 2

\* radius = work_size // 2 - 32   |  size // 2 - 2   |  size // 2 - 8
Radius(gen, size) ==
    CASE gen = "hq"         -> WorkSize(gen, size) \div 2 - 32
      [] gen = "simplified" -> size \div 2 - 2
      [] OTHER              -> size \div 2 - 8

\* int(hi - (hi - lo) * num / den) for 0 <= num <= den
Channel(hi, lo, num, den) == (hi * den - (hi - lo) * num) \div den

\* variant: the fade counted one step too far, so the innermost ring gets alpha 0
HQAlphaOffByOne(i) == (255 * (gradient_steps - 1 - i) * 9) \div (gradient_steps * 10)

\* alpha = int(255 * (gradient_steps - i) / gradient_steps * 0.9)
HQAlpha(i) == (255 * (gradient_steps - i) * 9) \div (gradient_steps * 10)

\* alpha = int(255 * (radius - i) / radius)
BasicAlpha(radius, i) == (255 * (radius - i)) \div radius

\* current_radius = radius - i * radius // gradient_steps
HQCurrentRadius(radius, i) == radius - ((i * radius) \div gradient_steps)

\* variant: the "if current_radius > 0" guard left out
HQRingNoGuard(radius, i) ==
    [i |-> i, num |-> i, den |-> gradient_steps,
     r |-> Channel(206, 139, i, gradient_steps),
     g |-> Channel(66, 44, i, gradient_steps),
     b |-> Channel(43, 27, i, gradient_steps),
     alpha |-> HQAlpha(i),
     radius |-> HQCurrentRadius(radius, i),
     painted |-> TRUE]

\* one iteration of "for i in range(gradient_steps)" of create_hq_bsl_logo
HQRing(radius, i) ==
    [i |-> i, num |-> i, den |-> gradient_steps,
     r |-> Channel(206, 139, i, gradient_steps),
     g |-> Channel(66, 44, i, gradient_steps),
     b |-> Channel(43, 27, i, gradient_steps),
     alpha |-> HQAlpha(i),
     radius |-> HQCurrentRadius(radius, i),
     painted |-> HQCurrentRadius(radius, i) > 0]

\* one iteration of "for i in range(radius)" of create_bsl_logo
BasicRing(radius, i) ==
    [i |-> i, num |-> i, den |-> radius,
     r |-> Channel(206, 139, i, radius),
     g |-> Channel(66, 44, i, radius),
     b |-> Channel(43, 27, i, radius),
     alpha |-> BasicAlpha(radius, i),
     radius |-> radius - i,
     painted |-> TRUE]

Ring(gen, radius, i) == IF gen = "hq" THEN HQRing(radius, i) ELSE BasicRing(radius, i)

\* number of iterations of the gradient loop: range(gradient_steps) | range(radius)
RingCount(gen, radius) == IF gen = "hq" THEN gradient_steps ELSE Max(radius, 0)

RingOp(c, ring) ==
    Op("ellipse", "ring", Box(<<c.center, c.center>>, ring.radius),
       <<ring.r, ring.g, ring.b, ring.alpha>>, NoColor, 0, "")

\* left_points of create_hq_bsl_logo
HQLeftPoints(center) ==
    << <<center - 80,  center - 100>>, <<center - 120, center - 100>>,
       <<center - 120, center - 60>>,  <<center - 100, center - 40>>,
       <<center - 120, center - 20>>,  <<center - 120, center + 20>>,
       <<center - 100, center + 40>>,  <<center - 120, center + 60>>,
       <<center - 120, center + 100>>, <<center - 80,  center + 100>> >>

\* right_points = [(center + (center - x), y) for x, y in left_points]
HQRightPoints(center, left) ==
    [k \in 1..Len(left) |-> <<center + (center - left[k][1]), left[k][2]>>]

\* bracket_points_left of create_bsl_logo
BasicLeftPoints(center) ==
    << <<center - 20, center - 25>>, <<center - 30, center - 25>>,
       <<center - 30, center - 15>>, <<center - 25, center - 10>>,
       <<center - 30, center - 5>>,  <<center - 30, center + 5>>,
       <<center - 25, center + 10>>, <<center - 30, center + 15>>,
       <<center - 30, center + 25>>, <<center - 20, center + 25>> >>

\* variant: one hand-written coordinate mistyped (center+20 for center+25)
BasicRightPointsTypo(center) ==
    << <<center + 20, center - 25>>, <<center + 30, center - 25>>,
       <<center + 30, center - 15>>, <<center + 20, center - 10>>,
       <<center + 30, center - 5>>,  <<center + 30, center + 5>>,
       <<center + 25, center + 10>>, <<center + 30, center + 15>>,
       <<center + 30, center + 25>>, <<center + 20, center + 25>> >>

\* bracket_points_right of create_bsl_logo
BasicRightPoints(center) ==
    << <<center + 20, center - 25>>, <<center + 30, center - 25>>,
       <<center + 30, center - 15>>, <<center + 25, center - 10>>,
       <<center + 30, center - 5>>,  <<center + 30, center + 5>>,
       <<center + 25, center + 10>>, <<center + 30, center + 15>>,
       <<center + 30, center + 25>>, <<center + 20, center + 25>> >>

\* points: the four marker dots (top, left, right, bottom)
MarkerPoints(gen, center) ==
    LET d == IF gen = "hq" THEN 32 ELSE 8
    IN  << <<center, center - d>>, <<center - d, center>>,
           <<center + d, center>>, <<center, center + d>> >>

\* radius of a marker dot: dot_radius | the 3 of [point-3, point+3]
MarkerRadius(gen) == IF gen = "hq" THEN dot_radius ELSE 3

\* variant: the closing stroke of the diamond left out
ConnectionsOpen(gen, center) ==
    LET d == IF gen = "hq" THEN 20 ELSE 5
    IN  << << <<center, center - d>>, <<center - d, center>> >>,
           << <<center - d, center>>, <<center, center + d>> >>,
           << <<center, center + d>>, <<center + d, center>> >> >>

\* connections: (start, end) pairs
Connections(gen, center) ==
    LET d == IF gen = "hq" THEN 20 ELSE 5
    IN  << << <<center, center - d>>, <<center - d, center>> >>,
           << <<center - d, center>>, <<center, center + d>> >>,
           << <<center, center + d>>, <<center + d, center>> >>,
           << <<center + d, center>>, <<center, center - d>> >> >>

\* gear_center = (center + 120, center + 120) | (center + 30, center + 30)
GearCenter(gen, center) ==
    IF gen = "hq" THEN <<center + 120, center + 120>> ELSE <<center + 30, center + 30>>

\* text_center = (center + 120, center - 120) | (center + 30, center - 30)
TextCenter(gen, center) ==
    IF gen = "hq" THEN <<center + 120, center - 120>> ELSE <<center + 30, center - 30>>

White(a) == <<255, 255, 255, a>>
Black(a) == <<0, 0, 0, a>>
BslBlue == <<0, 122, 204, 255>>
RustRed(a) == <<206, 66, 43, a>>

\* strokes between consecutive points of a polyline
Segments(elem, pts, color, width) ==
    [k \in 1..(Len(pts) - 1) |-> create_smooth_line(elem, pts[k], pts[k + 1], color, width)]

\* create_bsl_logo draws left and right stroke k in the same loop iteration
Interleave(a, b) ==
    [k \in 1..(2 * Len(a)) |-> IF k % 2 = 1 THEN a[(k + 1) \div 2] ELSE b[k \div 2]]

\* for point in points: shadow, marker, highlight
HQDotOps(points) ==
    [k \in 1..(3 * Len(points)) |->
        LET p == points[(k - 1) \div 3 + 1]
        IN  CASE (k - 1) % 3 = 0 ->
                   create_smooth_circle("shadow", <<p[1] + 2, p[2] + 2>>, dot_radius + 1,
                                        <<0, 100, 180, 100>>, 0)
              [] (k - 1) % 3 = 1 ->
                   create_smooth_circle("dot", p, dot_radius, BslBlue, 0)
              [] OTHER ->
                   create_smooth_circle("highlight", <<p[1] - 3, p[2] - 3>>, dot_radius \div 3,
                                        White(150), 0)]

BasicDotOps(points) ==
    [k \in 1..Len(points) |-> Op("ellipse", "dot", Box(points[k], 3), BslBlue, NoColor, 0, "")]

ConnectionOps(gen, conns) ==
    [k \in 1..Len(conns) |->
        IF gen = "hq"
        THEN create_smooth_line("connection", conns[k][1], conns[k][2], White(200), line_width)
        ELSE create_smooth_line("connection", conns[k][1], conns[k][2], White(200), 2)]

GearOps(gen, gc) ==
    IF gen = "hq"
    THEN << create_smooth_circle("gear_shadow", <<gc[1] + 2, gc[2] + 2>>, gear_outer + 2, Black(100), 0),
            create_smooth_circle("gear", gc, gear_outer, White(230), 0),
            create_smooth_circle("gear", gc, gear_inner, RustRed(200), 0),
            create_smooth_circle("gear", gc, gear_inner \div 2, White(255), 0) >>
    ELSE << Op("ellipse", "gear", Box(gc, 4), White(230), NoColor, 0, ""),
            Op("ellipse", "gear", Box(gc, 2), RustRed(200), NoColor, 0, "") >>

BadgeOps(gen, tc) ==
    IF gen = "hq"
    THEN << Op("rounded_rectangle", "badge", Box(tc, rect_size), White(60), White(120), 2, "") >>
    ELSE << Op("rectangle", "badge", Box(tc, 8), White(50), NoColor, 0, "") >>

TextOp(elem, at, color, font) ==
    Op("text", elem, <<at[1], at[2], at[1], at[2]>>, color, NoColor, 0, font)

\* text "1C": the hq generator paints the drop shadow first, then the main text
TextOps(gen, tc, font) ==
    IF gen = "hq"
    THEN << TextOp("text_shadow", <<tc[1] + 2, tc[2] + 2>>, Black(100), font),
            TextOp("text", tc, White(255), font) >>
    ELSE << TextOp("text", tc, White(255), font) >>

\* try: font = ImageFont.truetype("arial.ttf", n)  except: font = ImageFont.load_default()
LoadedFont(gen, ok) ==
    IF ok THEN (IF gen = "hq" THEN "arial.ttf/40" ELSE "arial.ttf/10") ELSE "default"

\* the draw calls of create_simplified_logo
SimplifiedOps(size) ==
    LET center == size \div 2
        bw == Max(1, size \div 16)
        dot_size == Max(1, size \div 8)
    IN  << Op("ellipse", "disk", <<2, 2, size - 2, size - 2>>, RustRed(255), NoColor, 0, ""),
           Op("rectangle", "bar",
              <<center \div 2, center \div 2, center \div 2 + bw, center + center \div 2>>,
              White(255), NoColor, 0, ""),
           Op("rectangle", "bar",
              <<center + center \div 2, center \div 2, center + center \div 2 + bw,
                center + center \div 2>>,
              White(255), NoColor, 0, ""),
           Op("ellipse", "dot", Box(<<center, center>>, dot_size), BslBlue, NoColor, 0, "") >>

----------------------------------------------------------------------------
(* The steps of a generator call *)

Running(stage) == call.gen # "none" /\ call.stage = stage

GenFrame == UNCHANGED <<pc, idx, fontOK, strict, prev, attempts, disk>>

\* variant: one module-level canvas kept between calls and not cleared
NewCanvasReused ==
    /\ Running("new")
    /\ LET w == WorkSize(call.gen, call.size)
           radius == Radius(call.gen, call.size)
       IN  call' = [call EXCEPT
                      !.img = [NewImage(w, w) EXCEPT !.ops = prev.img.ops],
                      !.center = Center(call.gen, call.size),
                      !.radius = radius,
                      !.stage = CASE call.gen = "simplified" -> "simple"
                                  [] RingCount(call.gen, radius) = 0 -> "inner"
                                  [] OTHER -> "gradient"]
    /\ GenFrame

\* img = Image.new('RGBA', (w, w), (0, 0, 0, 0)); center = ...; radius = ...
NewCanvas ==
    /\ Running("new")
    /\ LET w == WorkSize(call.gen, call.size)
           radius == Radius(call.gen, call.size)
       IN  call' = [call EXCEPT
                      !.img = NewImage(w, w),
                      !.center = Center(call.gen, call.size),
                      !.radius = radius,
                      !.stage = CASE call.gen = "simplified" -> "simple"
                                  [] RingCount(call.gen, radius) = 0 -> "inner"
                                  [] OTHER -> "gradient"]
    /\ GenFrame

\* one iteration of the gradient loop
PaintRing ==
    /\ Running("gradient")
    /\ LET ring == Ring(call.gen, call.radius, call.i)
           last == call.i + 1 >= RingCount(call.gen, call.radius)
       IN  call' = [call EXCEPT
                      !.img.ops = IF ring.painted THEN Append(@, RingOp(call, ring)) ELSE @,
                      !.prev_ring = call.ring,
                      !.ring = ring,
                      !.i = IF last THEN 0 ELSE @ + 1,
                      !.stage = IF last THEN "inner" ELSE @]
    /\ GenFrame

\* inner_radius = radius - 32 | radius - 8, drawn as an outline
InnerOutline ==
    /\ Running("inner")
    /\ LET c == <<call.center, call.center>>
           op == IF call.gen = "hq"
                 THEN create_smooth_circle("inner_outline", c, call.radius - 32, White(40), 4)
                 ELSE Op("ellipse", "inner_outline", Box(c, call.radius - 8),
                         NoColor, White(50), 1, "")
       IN  call' = Draw(call, <<op>>, "brackets")
    /\ GenFrame

\* the two bracket polylines
DrawBrackets ==
    /\ Running("brackets")
    /\ LET left == IF call.gen = "hq" THEN HQLeftPoints(call.center)
                   ELSE BasicLeftPoints(call.center)
           right == IF call.gen = "hq" THEN HQRightPoints(call.center, left)
                    ELSE BasicRightPoints(call.center)
           ops == IF call.gen = "hq"
                  THEN Segments("bracket", left, White(255), bracket_width)
                       \o Segments("bracket", right, White(255), bracket_width)
                  ELSE Interleave(Segments("bracket", left, White(255), 3),
                                  Segments("bracket", right, White(255), 3))
       IN  call' = Draw([call EXCEPT !.left_points = left, !.right_points = right],
                        ops, "dots")
    /\ GenFrame

\* the four marker dots
DrawDots ==
    /\ Running("dots")
    /\ LET points == MarkerPoints(call.gen, call.center)
           ops == IF call.gen = "hq" THEN HQDotOps(points) ELSE BasicDotOps(points)
       IN  call' = Draw([call EXCEPT !.points = points], ops, "connections")
    /\ GenFrame

\* the connective strokes
DrawConnections ==
    /\ Running("connections")
    /\ LET conns == Connections(call.gen, call.center)
       IN  call' = Draw([call EXCEPT !.connections = conns],
                        ConnectionOps(call.gen, conns), "gear")
    /\ GenFrame

\* the gear ornament
DrawGear ==
    /\ Running("gear")
    /\ LET gc == GearCenter(call.gen, call.center)
       IN  call' = Draw([call EXCEPT !.gear_center = gc], GearOps(call.gen, gc), "badge")
    /\ GenFrame

\* the background of the text badge
DrawBadge ==
    /\ Running("badge")
    /\ LET tc == TextCenter(call.gen, call.center)
       IN  call' = Draw([call EXCEPT !.text_center = tc], BadgeOps(call.gen, tc), "font")
    /\ GenFrame

\* variant: no try/except around the font load
LoadFontNoExcept ==
    /\ Running("font")
    /\ call' = IF fontOK
               THEN [call EXCEPT !.font = LoadedFont(call.gen, TRUE), !.stage = "text"]
               ELSE [call EXCEPT !.stage = "crashed"]
    /\ GenFrame

\* try: truetype("arial.ttf") except: load_default()
LoadFont ==
    /\ Running("font")
    /\ call' = [call EXCEPT !.font = LoadedFont(call.gen, fontOK), !.stage = "text"]
    /\ GenFrame

\* draw.text(..., "1C", ..., font=font, anchor="mm")
DrawText ==
    /\ Running("text")
    /\ call' = Draw(call, TextOps(call.gen, call.text_center, call.font),
                    IF call.gen = "hq" THEN "resize" ELSE "return")
    /\ GenFrame

\* img = img.resize((size, size), Image.Resampling.LANCZOS)
Resize ==
    /\ Running("resize")
    /\ call' = [call EXCEPT !.img.w = call.size, !.img.h = call.size,
                            !.img.resampled = "LANCZOS", !.stage = "sharpen"]
    /\ GenFrame

\* img = img.filter(ImageFilter.UnsharpMask(radius=0.5, percent=120, threshold=2))
Sharpen ==
    /\ Running("sharpen")
    /\ call' = [call EXCEPT !.img.sharpened = TRUE, !.stage = "return"]
    /\ GenFrame

\* the body of create_simplified_logo after the canvas allocation
DrawSimplified ==
    /\ Running("simple")
    /\ call' = Draw(call, SimplifiedOps(call.size), "return")
    /\ GenFrame

\* return img
Return ==
    /\ Running("return")
    /\ call' = [call EXCEPT !.stage = "returned"]
    /\ GenFrame

GenStep ==
    \/ NewCanvas \/ PaintRing \/ InnerOutline \/ DrawBrackets \/ DrawDots
    \/ DrawConnections \/ DrawGear \/ DrawBadge \/ LoadFont \/ DrawText
    \/ Resize \/ Sharpen \/ DrawSimplified \/ Return

----------------------------------------------------------------------------
(* One generator called with an arbitrary size, then called again *)

\* a second invocation with the same argument; the font resource may have
\* appeared or disappeared in between
Reinvoke ==
    /\ call.stage = "returned"
    /\ prev = NoCall
    /\ prev' = call
    /\ call' = NewCall(call.gen, call.size)
    /\ fontOK' \in BOOLEAN
    /\ UNCHANGED <<pc, idx, strict, attempts, disk>>

InitGen ==
    /\ pc = "lib"
    /\ idx = 0
    /\ fontOK \in BOOLEAN
    /\ strict \in BOOLEAN
    /\ call \in {NewCall(g, s) : g \in Generators, s \in GenSizes}
    /\ prev = NoCall
    /\ attempts = <<>>
    /\ disk = {}

NextGen == GenStep \/ Reinvoke

SpecGen == InitGen /\ [][NextGen]_vars

----------------------------------------------------------------------------
(* The script body of create_hq_logo.py and create_optimized_icons *)

MainPath == "vscode-extension/images/bsl-analyzer-logo.png"

\* filename = f"vscode-extension/images/bsl-analyzer-{suffix}.png"
IconPath(suffix) == "vscode-extension/images/bsl-analyzer-" \o suffix \o ".png"

\* variant: the threshold test written "size < 24"
IconGeneratorBelow24(size) == IF size < 24 THEN "simplified" ELSE "hq"

\* if size <= 24: create_simplified_logo(size) else: create_hq_bsl_logo(size)
IconGenerator(size) == IF size <= 24 THEN "simplified" ELSE "hq"

\* variant: the save wrapped in a try/except that goes on with the next file
AfterSaveSwallowed(ok, next) == next

\* where the script continues after logo.save(...): an exception a save raises
\* is caught nowhere, so it ends the process
AfterSave(ok, next) == IF ok THEN next ELSE "failed"

Finished == call.stage \in {"returned", "crashed"}

\* logo.save(path, "PNG", optimize=True) on the image the call returned
Save(path, next) ==
    IF call.stage = "crashed"
    THEN /\ pc' = "failed"
         /\ UNCHANGED <<attempts, disk>>
    ELSE \E ok \in BOOLEAN :
           /\ attempts' = Append(attempts, [path |-> path, size |-> call.size,
                                            gen |-> call.gen, img |-> call.img, ok |-> ok])
           /\ disk' = IF ok
                      THEN {f \in disk : f.path # path}
                           \cup {[path |-> path, img |-> call.img]}
                      ELSE disk
           /\ pc' = AfterSave(ok, next)

\* main_logo = create_hq_bsl_logo(128)
StartMain ==
    /\ pc = "start"
    /\ call' = NewCall("hq", 128)
    /\ pc' = "main_gen"
    /\ UNCHANGED <<idx, fontOK, strict, prev, attempts, disk>>

\* main_logo.save("vscode-extension/images/bsl-analyzer-logo.png", ...)
SaveMain ==
    /\ pc = "main_gen"
    /\ Finished
    /\ Save(MainPath, "icons")
    /\ call' = NoCall
    /\ UNCHANGED <<idx, fontOK, strict, prev>>

\* for size, suffix in sizes.items(): logo = create_...(size)
NextIcon ==
    /\ pc = "icons"
    /\ idx < Len(sizes)
    /\ call' = NewCall(IconGenerator(sizes[idx + 1].size), sizes[idx + 1].size)
    /\ pc' = "icon_gen"
    /\ UNCHANGED <<idx, fontOK, strict, prev, attempts, disk>>

\* logo.save(filename, "PNG", optimize=True); icons_created.append(...)
SaveIcon ==
    /\ pc = "icon_gen"
    /\ Finished
    /\ Save(IconPath(sizes[idx + 1].suffix), "icons")
    /\ idx' = IF pc' = "icons" THEN idx + 1 ELSE idx
    /\ call' = NoCall
    /\ UNCHANGED <<fontOK, strict, prev>>

\* return icons_created; the closing prints
Finish ==
    /\ pc = "icons"
    /\ idx = Len(sizes)
    /\ pc' = "done"
    /\ UNCHANGED <<idx, fontOK, strict, call, prev, attempts, disk>>

Init ==
    /\ pc = "start"
    /\ idx = 0
    /\ fontOK \in BOOLEAN
    /\ strict \in BOOLEAN
    /\ call = NoCall
    /\ prev = NoCall
    /\ attempts = <<>>
    /\ disk = {}

Next == GenStep \/ StartMain \/ SaveMain \/ NextIcon \/ SaveIcon \/ Finish

Spec == Init /\ [][Next]_vars

----------------------------------------------------------------------------
(* Helpers of the properties *)

Elems(img) == {img.ops[k].elem : k \in 1..Len(img.ops)}

ElemSeq(img) == [k \in 1..Len(img.ops) |-> img.ops[k].elem]

\* the fixed order in which a run of create_hq_logo.py writes its files
WriteOrder ==
    <<MainPath>> \o [k \in 1..Len(sizes) |-> IconPath(sizes[k].suffix)]

LastOps(img, n) == SubSeq(img.ops, Len(img.ops) - n + 1, Len(img.ops))

\* the call is one of a generator that draws text and has executed its font load
PastFontLoad ==
    /\ call.gen \in {"hq", "basic"}
    /\ call.stage \in {"text", "resize", "sharpen", "return", "returned"}

----------------------------------------------------------------------------
(* C1: for every size S > 0 each generator completes and returns an image of
   exactly S x S pixels.  The statement as claimed; the strict library refuses
   the inner outline of the detailed and basic generators when its radius is
   negative (S < 32) and the disk of the simplified generator when S < 4. *)
C1_EverySizeReturnsSquare ==
    call.gen # "none" =>
        /\ call.stage # "crashed"
        /\ (call.stage = "returned" => call.img.w = call.size /\ call.img.h = call.size)

(* C2: every file a run of create_hq_logo.py writes at size <= 24 holds only the
   flat disk, two bracket bars and one centre dot (no gradient ring, shadow or
   highlight, no downsampling, no sharpening); every file at size > 24 is the
   product of the detailed path create_hq_bsl_logo. *)
C2_SimplifiedThreshold ==
    \A k \in 1..Len(attempts) :
        LET a == attempts[k]
        IN  /\ a.size <= 24 =>
                /\ a.gen = "simplified"
                /\ ElemSeq(a.img) = <<"disk", "bar", "bar", "dot">>
                /\ Elems(a.img) \cap {"ring", "shadow", "highlight",
                                      "gear_shadow", "text_shadow"} = {}
                /\ a.img.resampled = ""
                /\ ~a.img.sharpened
            /\ a.size > 24 =>
                /\ a.gen = "hq"
                /\ {"ring", "shadow", "highlight"} \subseteq Elems(a.img)
                /\ a.img.resampled = "LANCZOS"
                /\ a.img.sharpened

C2_Witness ==
    /\ pc = "done"
    /\ \E j, k \in 1..Len(attempts) :
          /\ attempts[j].size = 24 /\ attempts[j].ok
          /\ attempts[k].size = 32 /\ attempts[k].ok

(* C3: the run writes main logo, small, medium, large, xlarge, icon in that
   order, each path at most once; only the last attempted write can have
   failed, and then the run has terminated: nothing more is generated or
   written, the failed write is not retried, and the files written before are
   still in place.  A run that ends normally has written all six files. *)
C3_WriteFailureFatal ==
    LET n == Len(attempts)
        okFiles == {[path |-> attempts[k].path, img |-> attempts[k].img] :
                        k \in {j \in 1..n : attempts[j].ok}}
    IN  /\ n <= Len(WriteOrder)
        /\ \A k \in 1..n : attempts[k].path = WriteOrder[k]
        /\ \A k \in 1..(n - 1) : attempts[k].ok
        /\ (n > 0 /\ ~attempts[n].ok) => (pc = "failed" /\ call = NoCall)
        /\ pc = "failed" => ~ENABLED Next
        /\ disk = okFiles
        /\ pc = "done" => (n = Len(WriteOrder) /\ \A k \in 1..n : attempts[k].ok)

C3_Witness ==
    /\ pc = "failed"
    /\ Len(attempts) = 3
    /\ ~attempts[3].ok
    /\ Cardinality(disk) = 2

(* C4: when loading "arial.ttf" fails the generator takes the built-in default
   font and goes on: no call is abandoned at or after the font load, the call
   can always take its next step until it has returned, and the text "1C" is
   drawn with the default font (in create_hq_bsl_logo the drop shadow first,
   then the main text) as the last draw calls of the image. *)
C4_FontFallback ==
    /\ call.stage = "crashed" => call.text_center = <<>>
    /\ (PastFontLoad /\ ~fontOK) =>
          /\ call.font = "default"
          /\ call.stage # "returned" => ENABLED GenStep
          /\ call.stage \in {"resize", "sharpen", "return", "returned"} =>
                IF call.gen = "hq"
                THEN /\ LastOps(call.img, 2)[1].elem = "text_shadow"
                     /\ LastOps(call.img, 2)[2].elem = "text"
                     /\ \A k \in 1..2 : LastOps(call.img, 2)[k].font = "default"
                ELSE /\ LastOps(call.img, 1)[1].elem = "text"
                     /\ LastOps(call.img, 1)[1].font = "default"

C4_Witness ==
    /\ call.gen = "hq"
    /\ call.stage = "returned"
    /\ ~fontOK
    /\ call.font = "default"
    /\ "text" \in Elems(call.img)

(* C5 as claimed: two invocations of a generator with the same size return
   identical images, whatever the outcome of the font load. *)
C5_SizeAloneDecidesImage ==
    (prev # NoCall /\ call.stage = "returned") => call.img = prev.img

(* C5 amended: two invocations of a generator with the same size and the same
   outcome of the font load return identical images. *)
C5_SameSizeSameFontSameImage ==
    (prev # NoCall /\ call.stage = "returned" /\ call.font = prev.font)
        => call.img = prev.img

C5_Witness ==
    /\ prev # NoCall
    /\ call.stage = "returned"
    /\ call.gen = "hq"
    /\ call.font = "default"
    /\ prev.font = "default"
    /\ Len(call.img.ops) > 0

(* C7: the right bracket's point list is the left bracket's list reflected
   about x = center, point for point and in the same order, in
   create_hq_bsl_logo and in create_bsl_logo. *)
C7_Mirroring ==
    call.right_points # <<>> =>
        /\ Len(call.right_points) = Len(call.left_points)
        /\ \A k \in 1..Len(call.left_points) :
              call.right_points[k] =
                  <<2 * call.center - call.left_points[k][1], call.left_points[k][2]>>

C7_Witness ==
    /\ call.gen = "basic"
    /\ call.stage = "returned"
    /\ Len(call.right_points) = 10
    /\ call.right_points[4] # call.left_points[4]

SegmentEnds(conns) == {conns[k][j] : k \in 1..Len(conns), j \in 1..2}

ClosedChain(conns) ==
    /\ Len(conns) = 4
    /\ \A k \in 1..(Len(conns) - 1) : conns[k][2] = conns[k + 1][1]
    /\ conns[Len(conns)][2] = conns[1][1]

Sign(x) == IF x > 0 THEN 1 ELSE IF x < 0 THEN -1 ELSE 0

\* the point of a marker dot's rim that is nearest to the canvas centre
InnerEdge(p, center, r) ==
    <<p[1] - r * Sign(p[1] - center), p[2] - r * Sign(p[2] - center)>>

(* C8 as claimed: the connective strokes are four segments forming a closed
   diamond whose end points are the four marker-dot centres. *)
C8_DiamondJoinsMarkerCentres ==
    call.connections # <<>> =>
        /\ ClosedChain(call.connections)
        /\ SegmentEnds(call.connections) = {call.points[k] : k \in 1..Len(call.points)}

(* C8 amended: the connective strokes are four segments forming a closed
   diamond whose four vertices are the points of the four marker dots' rims
   nearest to the canvas centre (marker distance minus marker radius). *)
C8_DiamondJoinsMarkerInnerEdges ==
    call.connections # <<>> =>
        /\ ClosedChain(call.connections)
        /\ Cardinality(SegmentEnds(call.connections)) = 4
        /\ SegmentEnds(call.connections) =
              {InnerEdge(call.points[k], call.center, MarkerRadius(call.gen)) :
                  k \in 1..Len(call.points)}

C8_Witness ==
    /\ call.gen = "hq"
    /\ call.stage = "returned"
    /\ Len(call.connections) = 4
    /\ Len(call.points) = 4

InCanvas(p, w) == p[1] \in 0..(w - 1) /\ p[2] \in 0..(w - 1)

InDisk(p, center, radius) ==
    radius > 0 /\
    (p[1] - center) * (p[1] - center) + (p[2] - center) * (p[2] - center) <= radius * radius

\* every point the detailed generator has computed so far
ComputedPoints(c) ==
    {c.left_points[k] : k \in 1..Len(c.left_points)}
    \cup {c.right_points[k] : k \in 1..Len(c.right_points)}
    \cup {c.points[k] : k \in 1..Len(c.points)}
    \cup (IF c.gear_center = <<>> THEN {} ELSE {c.gear_center})
    \cup (IF c.text_center = <<>> THEN {} ELSE {c.text_center})

(* C10: at every size create_optimized_icons routes to the detailed generator
   (32, 48, 128) every bracket vertex, marker-dot centre, the gear centre and
   the text-badge centre lies inside the 4*size x 4*size working canvas and
   inside the main disk.  The statement as claimed; the offsets are absolute
   pixel counts tuned for size 128 and leave the canvas at 32 and 48. *)
C10_CompositionInsideCanvas ==
    (call.gen = "hq" /\ call.size \in {SizeOf(sizes[k]) : k \in 1..Len(sizes)}
                     /\ IconGenerator(call.size) = "hq") =>
        \A p \in ComputedPoints(call) :
            /\ InCanvas(p, WorkSize("hq", call.size))
            /\ InDisk(p, call.center, call.radius)

----------------------------------------------------------------------------
(* The gradient loop of create_hq_bsl_logo and create_bsl_logo on its own,
   for every size up to MaxRingSize *)

InitRings ==
    /\ pc = "lib"
    /\ idx = 0
    /\ fontOK = TRUE
    /\ strict \in BOOLEAN
    /\ call \in {NewCall(g, s) : g \in {"hq", "basic"}, s \in 1..MaxRingSize}
    /\ prev = NoCall
    /\ attempts = <<>>
    /\ disk = {}

NextRings == NewCanvas \/ PaintRing

SpecRings == InitRings /\ [][NextRings]_vars

Between(x, lo, hi) == lo <= x /\ x <= hi

\* what holds of every iteration of either gradient loop
RingPalette(ring) ==
    /\ Between(ring.num, 0, ring.den)
    /\ Between(ring.r, 139, 206)
    /\ Between(ring.g, 44, 66)
    /\ Between(ring.b, 27, 43)
    /\ Between(ring.alpha, 0, 255)

\* an ellipse is on the canvas for the iteration exactly when it was painted
RingPaintedIff(c) ==
    LET n == Len(c.img.ops)
        drawn == n > 0 /\ c.img.ops[n] = RingOp(c, c.ring)
    IN  /\ c.ring.painted => drawn
        /\ c.ring.radius <= 0 => ~c.ring.painted
        /\ ~c.ring.painted => (n = 0 \/ c.img.ops[n].xy # Box(<<c.center, c.center>>, c.ring.radius))

(* C9 as claimed: in every iteration the interpolation parameter is in [0,1],
   the channels lie between the palette end points, alpha is in 0..255 and
   strictly below the previous iteration's alpha, a painted ring's radius is
   not above the previously painted ring's radius, and a ring of non-positive
   radius is skipped. *)
C9_RingsStrictlyFading ==
    call.ring.i >= 0 =>
        /\ RingPalette(call.ring)
        /\ RingPaintedIff(call)
        /\ call.prev_ring.i >= 0 =>
              /\ call.ring.alpha < call.prev_ring.alpha
              /\ (call.ring.painted /\ call.prev_ring.painted) =>
                    call.ring.radius <= call.prev_ring.radius

(* C9 amended: in every iteration the interpolation parameter is in [0,1], the
   channels lie between the palette end points, alpha is in 0..255 and never
   above the previous iteration's alpha, strictly below it whenever the loop
   has at most 256 iterations (always in create_hq_bsl_logo, up to size 529 in
   create_bsl_logo); a painted ring's radius is not above the previously
   painted ring's radius, and a ring of non-positive radius is skipped. *)
C9_RingsFading ==
    call.ring.i >= 0 =>
        /\ RingPalette(call.ring)
        /\ RingPaintedIff(call)
        /\ call.prev_ring.i >= 0 =>
              /\ call.ring.alpha <= call.prev_ring.alpha
              /\ call.ring.den <= 256 => call.ring.alpha < call.prev_ring.alpha
              /\ (call.ring.painted /\ call.prev_ring.painted) =>
                    call.ring.radius <= call.prev_ring.radius

C9_Witness ==
    /\ call.gen = "basic"
    /\ call.size = 530
    /\ call.ring.i > 0
    /\ call.ring.painted
    /\ call.ring.alpha = call.prev_ring.alpha

----------------------------------------------------------------------------
(* Alpha of a canvas pixel after a list of draw calls.  A draw call on the RGBA
   canvas stores its colour and alpha in every pixel it covers; text is blended
   through the glyph mask of the font, which the sources do not fix, and never
   turns a positive alpha into zero, so it is left out of the coverage. *)

Sq(x) == x * x

InBox(p, xy) == /\ xy[1] <= p[1] /\ p[1] <= xy[3]
                /\ xy[2] <= p[2] /\ p[2] <= xy[4]

\* the filled ellipse inscribed in the box xy (doubled coordinates keep it integral)
CoversEllipse(xy, p) ==
    LET w == xy[3] - xy[1]
        h == xy[4] - xy[2]
        dx == 2 * p[1] - xy[1] - xy[3]
        dy == 2 * p[2] - xy[2] - xy[4]
    IN  /\ InBox(p, xy)
        /\ IF w = h THEN Sq(dx) + Sq(dy) <= Sq(w)
                    ELSE Sq(dx) * Sq(h) + Sq(dy) * Sq(w) <= Sq(w) * Sq(h)

Shrink(xy, d) == <<xy[1] + d, xy[2] + d, xy[3] - d, xy[4] - d>>

Clamp(x, lo, hi) == IF x < lo THEN lo ELSE IF x > hi THEN hi ELSE x

\* a rectangle with quarter-circle corners of radius r
CoversRounded(xy, r, p) ==
    /\ InBox(p, xy)
    /\ Sq(p[1] - Clamp(p[1], xy[1] + r, xy[3] - r))
         + Sq(p[2] - Clamp(p[2], xy[2] + r, xy[4] - r)) <= Sq(r)

\* a stroke of the given width from (xy[1], xy[2]) to (xy[3], xy[4])
CoversLine(xy, width, p) ==
    LET dx == xy[3] - xy[1]
        dy == xy[4] - xy[2]
        vx == p[1] - xy[1]
        vy == p[2] - xy[2]
        lo == <<(IF dx < 0 THEN xy[3] ELSE xy[1]) - width, (IF dy < 0 THEN xy[4] ELSE xy[2]) - width>>
        hi == <<(IF dx < 0 THEN xy[1] ELSE xy[3]) + width, (IF dy < 0 THEN xy[2] ELSE xy[4]) + width>>
    IN  /\ InBox(p, <<lo[1], lo[2], hi[1], hi[2]>>)
        /\ 0 <= vx * dx + vy * dy
        /\ vx * dx + vy * dy <= Sq(dx) + Sq(dy)
        /\ 4 * Sq(vx * dy - vy * dx) <= Sq(width) * (Sq(dx) + Sq(dy))

\* alpha the draw call leaves in pixel p, or -1 when it does not touch p
OpAlphaAt(op, p) ==
    CASE op.kind = "ellipse" /\ op.fill # NoColor ->
            IF CoversEllipse(op.xy, p) THEN op.fill[4] ELSE -1
      [] op.kind = "ellipse" /\ op.fill = NoColor ->
            IF CoversEllipse(op.xy, p) /\ ~CoversEllipse(Shrink(op.xy, op.width), p)
            THEN op.outline[4] ELSE -1
      [] op.kind = "rectangle" ->
            IF InBox(p, op.xy) THEN op.fill[4] ELSE -1
      [] op.kind = "rounded_rectangle" ->
            IF ~CoversRounded(op.xy, 8, p) THEN -1
            ELSE IF CoversRounded(Shrink(op.xy, op.width), 8 - op.width, p)
                 THEN op.fill[4] ELSE op.outline[4]
      [] op.kind = "line" ->
            IF CoversLine(op.xy, op.width, p) THEN op.fill[4] ELSE -1
      [] OTHER -> -1

\* paint order is the z-order: the last draw call that covers p decides
RECURSIVE AlphaFrom(_, _, _)
AlphaFrom(ops, k, p) ==
    IF k = 0 THEN 0
    ELSE LET a == OpAlphaAt(ops[k], p)
         IN  IF a >= 0 THEN a ELSE AlphaFrom(ops, k - 1, p)

AlphaAt(img, p) == AlphaFrom(img.ops, Len(img.ops), p)

SampleAxis(w) == {(k * w) \div GridN : k \in 0..(GridN - 1)} \cup {w \div 2}

SamplePixels(w) == SampleAxis(w) \X SampleAxis(w)

\* the sizes each generator is called with by the two scripts
InOutputSet(c) ==
    \/ c.gen = "basic" /\ c.size \in basic_sizes
    \/ /\ c.gen \in {"hq", "simplified"}
       /\ c.size \in {SizeOf(sizes[k]) : k \in 1..Len(sizes)}
       /\ IconGenerator(c.size) = c.gen

\* the last shape of the generator has just been drawn
AllDrawn(c) == IF c.gen = "hq" THEN c.stage = "resize" ELSE c.stage = "return"

(* C6: the image is RGBA, and once all shapes of a composition are drawn every
   canvas pixel inside the main disk has alpha > 0, for every size of the
   output size set under the composition that size is given (and for
   create_bsl_logo at the sizes its script uses). *)
C6_OpaqueInsideDisk ==
    (InOutputSet(call) /\ AllDrawn(call)) =>
        /\ call.img.mode = "RGBA"
        /\ \A p \in SamplePixels(call.img.w) :
              InDisk(p, call.center, call.radius) => AlphaAt(call.img, p) > 0

C6_Witness ==
    /\ call.gen = "hq"
    /\ call.size = 128
    /\ AllDrawn(call)
    /\ InDisk(<<call.center, call.center>>, call.center, call.radius)
    /\ AlphaAt(call.img, <<call.center, call.center>>) = 4
    /\ AlphaAt(call.img, <<0, 0>>) = 0

====
